---- MODULE Spec2Model ----
(***************************************************************************)
(* The per-request lifecycle of DIRAC's TornadoService                     *)
(* (Core/Tornado/Server/TornadoService.py).                                *)
(*                                                                         *)
(* One handler object is created per request.  Tornado creates it, runs    *)
(* initialize() from its constructor and then prepare() and the first      *)
(* half of post() in the same IOLoop callback, so those steps of one       *)
(* request never interleave with IOLoop steps of another request; the      *)
(* variable ioloop records which request owns the loop.  __executeMethod   *)
(* runs in the executor (a thread) and interleaves freely.  The second     *)
(* half of post() runs on the IOLoop again.                                *)
(***************************************************************************)
EXTENDS Integers, Sequences, FiniteSets, TLC

VARIABLES
  svc,       \* per handler class: the class attributes set by __initializeService
  req,       \* per handler instance (one per request): its attributes
  ioloop,    \* the set (empty or one slot) of requests running in the IOLoop callback
  accepted,  \* number of requests accepted since the process started
  deployed,  \* the services this process serves
  secLog,    \* the SecurityFileLog of the process: its queue and its writer thread
  ce         \* a ComputingElement: its job counts, its limits, what available() said

vars == <<svc, req, ioloop, accepted, deployed, secLog, ce>>

----------------------------------------------------------------------------
\* Bounds of the model
MaxRequests == 3

\* The handler instances alive at one time
Slots == {"h1", "h2"}

\* httplib status codes used by the handler
HTTP_OK == 200
BAD_REQUEST == 400
UNAUTHORIZED == 401
FORBIDDEN == 403
INTERNAL_SERVER_ERROR == 500
NOT_IMPLEMENTED == 501

----------------------------------------------------------------------------
\* Inputs of a request

\* The services, i.e. the handler classes deriving from TornadoService
Services == {"A", "B"}

\* The methods the handler class exports (export_<method>): the three built in
\* ones and one supplied by the service, restricted to the group admin.
ExportedMethods == {"ping", "echo", "whoami", "restricted"}

\* Value of the "method" argument; MissingArg: the argument is not in the request
MissingArg == "<missing>"
MethodArgs == ExportedMethods \cup {"nosuch", MissingArg}

\* Value of the "rawContent" argument as get_argument returns it: the default
\* False when absent, else the text the client sent.
PyFalse == "<False>"
RawContentArgs == {PyFalse, "true", "false"}

\* The certificate chain the TLS layer hands over
Chains == {"absent", "malformed", "alice", "bob"}

\* What the service supplied handler export_restricted does when called
Outcomes == {"ok", "error", "raise"}

\* What initializeRequest does: the one of TornadoService passes, the one a
\* service wrote may raise
HookOutcomes == {"pass", "raise"}

----------------------------------------------------------------------------
\* Python values, as far as this handler tells them apart

PyNone == [t |-> "None"]
PyStr(s) == [t |-> "str", s |-> s]
PyDict(d) == [t |-> "dict", d |-> d]
IsDict(v) == v.t = "dict"

\* del d[k]
DelKey(d, k) == [x \in (DOMAIN d) \ {k} |-> d[x]]

\* d[k] = v
SetKey(d, k, v) == [x \in (DOMAIN d) \cup {k} |-> IF x = k THEN v ELSE d[x]]

\* The dictionary export_ping builds: version, time (a datetime), uptimes, name
PyDInfo == [t |-> "dInfo"]

\* JEncode.encode: the JSON text of a value (a str)
encode(v) == [t |-> "json", v |-> v]

\* JEncode.decode(text)[0]: the value of a JSON text; Decodable: it has one
Decodable(text) == text.t = "json"
decode(text) == text.v

\* The values sent as arguments of echo
EchoValues == {PyStr("v1"), PyDict([CallStack |-> "v2"])}

\* The "args" argument of the body: the JSON text of the list of positional
\* arguments (the default is encode([])), or a text that is no JSON
ArgTexts == {encode(<< >>), [t |-> "garbage"]} \cup {encode(<<v>>) : v \in EchoValues}

\* Python truth of the rawContent attribute
Truthy(x) == x \notin {PyFalse, ""}

\* repr() of an exception of the given type raised with message m (python 2)
Repr(type, m) == type \o "('" \o m \o "',)"

\* ReturnValues.S_OK / S_ERROR
S_OK(value) == PyDict([OK |-> TRUE, Value |-> value])
S_ERROR(errno, message) ==
  PyDict([OK |-> FALSE, Errno |-> errno, Message |-> message,
          CallStack |-> "traceback.format_stack()"])

ENOAUTH == "ENOAUTH"
NoErrno == "0"

\* X509Chain.getCredentials for the chains of the model
Credentials(chain) ==
  IF chain = "alice"
    THEN PyDict([DN |-> "/O=Grid/CN=alice", group |-> "prod", x509Chain |-> "X509Chain"])
    ELSE PyDict([DN |-> "/O=Grid/CN=bob", group |-> "admin", x509Chain |-> "X509Chain"])

ChainIsValid(chain) == chain \in {"alice", "bob"}

\* getattr(self, 'auth_' + method): the static requirement, None when undeclared
hardcodedAuth(method) ==
  CASE method \in {"ping", "echo"} -> {"all"}
    [] method = "whoami" -> {"authenticated"}
    [] method = "restricted" -> {"admin"}
    [] OTHER -> {}

\* AuthManager.authQuery(method, credDict, hardcodedAuth): the set of decisions
\* the policy evaluator can return.  Without a static requirement the decision
\* rests on the configuration of the service, which the model leaves open.
authQuery(method, credDict, required) ==
  IF required = {} THEN BOOLEAN
  ELSE IF "all" \in required \/ "authenticated" \in required THEN {TRUE}
  ELSE {credDict.d.group \in required}

----------------------------------------------------------------------------
\* State of one handler class and of one handler instance

NoExc == ""
NoResp == [t |-> "none"]
NoBody == [t |-> "none"]
Dropped == [t |-> "dropped"]

InitClass ==
  [FLAG_INIT_DONE |-> FALSE,  \* __FLAG_INIT_DONE
   requests |-> 0,            \* _stats['requests']
   hookRuns |-> 0,            \* history: calls of initializeHandler
   hookRaised |-> FALSE]      \* history: some call of initializeHandler raised

\* The "extraCredentials" argument of the request: absent, the empty string,
\* the JSON text of what the caller claims to be, or a text that is no JSON
NoExtra == [t |-> "absent"]
EmptyText == [t |-> "text", v |-> ""]
ClaimedIdentity == PyDict([DN |-> "/O=Grid/CN=root", group |-> "admin"])
ExtraArgs == {NoExtra, EmptyText, encode(ClaimedIdentity), [t |-> "garbage"]}

NoQuery == [t |-> "none"]

IdleRequest ==
  [pc |-> "IDLE",
   service |-> "A", methodArg |-> MissingArg, rawArg |-> PyFalse,
   chain |-> "absent", argsEncoded |-> encode(<< >>), extraArg |-> NoExtra,
   \* attributes of the handler instance
   method |-> "None", rawContent |-> "None", credDict |-> PyNone,
   authorized |-> FALSE, httpError |-> HTTP_OK, retVal |-> PyNone,
   \* the decoded positional arguments
   args |-> << >>,
   \* the exception propagating out of the running call, if any
   exc |-> NoExc,
   \* tornado.web.RequestHandler: status line, Content-Type, write buffer,
   \* _finished, and the response as flushed to the client
   status |-> HTTP_OK, ctype |-> "text/html", buffer |-> NoBody,
   finished |-> FALSE, sent |-> NoResp,
   \* the client has closed the connection
   closed |-> FALSE,
   \* history
   initOK |-> FALSE,        \* initialize returned True
   afterRaise |-> FALSE,    \* the setup hook had raised when initialize returned
   credCalls |-> 0,         \* calls of _gatherPeerCredentials
   gateCalls |-> 0,         \* calls of authQuery
   gateQuery |-> NoQuery,   \* arguments of the last call of authQuery
   writeCalls |-> 0,        \* calls of __write_return
   finishCalls |-> 0,       \* calls of finish()
   dispatched |-> FALSE,    \* __executeMethod was entered
   requestHook |-> "",      \* initializeRequest: not called, "done" or "raised"
   invoked |-> FALSE,       \* export_<method> was called
   usedUninit |-> {},       \* class attributes read while the flag was false
   raised |-> NoExc,        \* message of the exception the call of the handler raised
   raisedType |-> NoExc,    \* and its type
   uncaught |-> NoExc,      \* exception that reached tornado's handler
   auditLines |-> 0]        \* lines logged by on_finish

----------------------------------------------------------------------------
\* SecurityFileLog (FrameworkSystem/private/SecurityFileLog.py)

\* Bound of the model: calls of logAction
MaxMessages == 3

requiredFields ==
  <<"timestamp", "success", "sourceIP", "sourcePort", "sourceIdentity",
    "destinationIP", "destinationPort", "destinationService", "action">>

\* The first item of a message: a datetime, or something that has no .year
Datetime == [t |-> "datetime"]
NoDatetime == [t |-> "str"]
Timestamps == {Datetime, NoDatetime}

\* The lengths of the messages passed to logAction
MsgLens == {0, Len(requiredFields) - 1, Len(requiredFields), Len(requiredFields) + 1}

\* The k-th message passed to logAction: n items, the first one ts
Message(k, ts, n) == [i \in 1..n |-> IF i = 1 THEN ts ELSE [t |-> "item", k |-> k]]

InitLog ==
  [queue |-> << >>,       \* __messagesQueue
   thread |-> "get",      \* run(): blocked in get(), "write", or "dead"
   secMsg |-> << >>,      \* the message run() is working on
   written |-> << >>,     \* the lines written to the log files
   ret |-> PyNone,        \* what the last call of logAction returned
   calls |-> 0,           \* history: calls of logAction
   msg |-> << >>,         \* history: the message of the last call
   accepted |-> << >>,    \* history: the messages put in the queue
   taken |-> << >>]       \* history: the messages get() returned

\* logAction(msg)
logAction(log, msg) ==
  LET l == [log EXCEPT !.calls = @ + 1, !.msg = msg]
  IN IF Len(msg) # Len(requiredFields)
       THEN [l EXCEPT !.ret = S_ERROR(NoErrno, "Mismatch in the msg size, it should be "
                                        \o ToString(Len(requiredFields)) \o " and it's "
                                        \o ToString(Len(msg)))]
       ELSE [l EXCEPT !.queue = Append(@, msg), !.accepted = Append(@, msg),
                      !.ret = S_OK(PyNone)]

\* run(), line 39: get() returns the oldest message of the queue
runGet(log) ==
  [log EXCEPT !.secMsg = Head(log.queue), !.queue = Tail(log.queue),
              !.taken = Append(@, Head(log.queue)), !.thread = "write"]

\* run(), lines 40-58: the path of the file is made from msgTime.year, .month
\* and .day, the line is appended, and the loop goes back to get().  A first
\* item without these attributes raises AttributeError, which nothing catches:
\* run() ends, and the thread with it.
runWrite(log) ==
  IF log.secMsg[1] = Datetime
    THEN [log EXCEPT !.written = Append(@, log.secMsg), !.thread = "get"]
    ELSE [log EXCEPT !.thread = "dead"]

----------------------------------------------------------------------------
\* ComputingElement (Resources/Computing/ComputingElement.py)

\* Bounds of the model: the job counts getDynamicInfo reports, the configured
\* limits, and the numerator of the configured ratio
MaxJobs == 4
MaxLimit == 8
MaxRatioNum == 4

\* WaitingToRunningRatio is a float: the model takes the ratios num/den with
\* den 1 or 2, which a float holds exactly, as it holds their products with
\* the small job counts
Ratios == {[num |-> n, den |-> d] : n \in -1..MaxRatioNum, d \in {1, 2}}

\* The limits of the configuration; nothing keeps them from being negative
Limits == -1..MaxLimit

IdleCE ==
  [infoOK |-> TRUE,                  \* getDynamicInfo()['OK']
   RunningJobs |-> 0, WaitingJobs |-> 0,
   MaxTotalJobs |-> 0, MaxWaitingJobs |-> 0,
   WaitingToRunningRatio |-> [num |-> 0, den |-> 1],
   called |-> FALSE,                 \* available() has returned
   OK |-> FALSE, Value |-> 0]        \* what it returned

\* int(x) of a float x = num/den: Python truncates towards zero
int(x) == IF x.num >= 0 THEN x.num \div x.den ELSE -((-x.num) \div x.den)

\* floor(x) of x = num/den
floor(x) == x.num \div x.den

\* runningJobs * waitingToRunningRatio
runningTimesRatio(c) ==
  [num |-> c.RunningJobs * c.WaitingToRunningRatio.num,
   den |-> c.WaitingToRunningRatio.den]

\* lines 287-288: int(max(int(MaxWaitingJobs), runningJobs * ratio)); max
\* returns its first argument unless the second is greater
maxWaitingJobs(c) ==
  LET x == runningTimesRatio(c)
  IN IF x.num > c.MaxWaitingJobs * x.den THEN int(x) ELSE c.MaxWaitingJobs

\* available() without the cap of lines 309-310
available_NoTotalCap(c) ==
  LET totalJobs == c.RunningJobs + c.WaitingJobs
      additionalJobs == IF c.WaitingJobs < maxWaitingJobs(c)
                          THEN maxWaitingJobs(c) - c.WaitingJobs ELSE 0
  IN IF ~c.infoOK THEN [c EXCEPT !.called = TRUE, !.OK = FALSE]
     ELSE IF totalJobs >= c.MaxTotalJobs
       THEN [c EXCEPT !.called = TRUE, !.OK = TRUE, !.Value = 0]
       ELSE [c EXCEPT !.called = TRUE, !.OK = TRUE, !.Value = additionalJobs]

\* available(): the result of getDynamicInfo is returned as it is when it is
\* an error, else with the number of jobs that may be added as Value
available(c) ==
  LET totalJobs == c.RunningJobs + c.WaitingJobs
      a1 == IF c.WaitingJobs < maxWaitingJobs(c)
              THEN maxWaitingJobs(c) - c.WaitingJobs ELSE 0
      additionalJobs == IF c.WaitingJobs < maxWaitingJobs(c)
                           /\ totalJobs + a1 >= c.MaxTotalJobs
                          THEN c.MaxTotalJobs - totalJobs ELSE a1
  IN IF ~c.infoOK THEN [c EXCEPT !.called = TRUE, !.OK = FALSE]
     ELSE IF totalJobs >= c.MaxTotalJobs
       THEN [c EXCEPT !.called = TRUE, !.OK = TRUE, !.Value = 0]
       ELSE [c EXCEPT !.called = TRUE, !.OK = TRUE, !.Value = additionalJobs]

----------------------------------------------------------------------------
\* tornado.web.RequestHandler, as far as the handler uses it

Raise(q, e) == [q EXCEPT !.exc = e]
Ok(q) == q.exc = NoExc

set_status(q, code) == [q EXCEPT !.status = code]
set_header(q, value) == [q EXCEPT !.ctype = value]

\* json.dumps, which write() applies to a dict, knows no datetime: it raises
\* TypeError for an envelope whose Value is the dInfo of export_ping
JsonDumpable(chunk) == ~("Value" \in DOMAIN chunk.d /\ chunk.d.Value = PyDInfo)

\* write(chunk): refuses after finish(); a dict is written as JSON
write(q, chunk) ==
  IF q.finished THEN Raise(q, "RuntimeError")
  ELSE IF IsDict(chunk) /\ ~JsonDumpable(chunk) THEN Raise(q, "TypeError")
  ELSE IF IsDict(chunk)
    THEN [q EXCEPT !.buffer = encode(chunk), !.ctype = "application/json; charset=UTF-8"]
    ELSE [q EXCEPT !.buffer = chunk]

\* on_finish logging nothing
on_finish_Silent(q) == q

\* on_finish: one line "Ending request to ... after ...s"
on_finish(q) == [q EXCEPT !.auditLines = @ + 1]

\* finish() raising when the connection is closed
finish_RaisesWhenClosed(q) ==
  IF q.finished THEN Raise([q EXCEPT !.finishCalls = @ + 1], "RuntimeError")
  ELSE IF q.closed THEN Raise([q EXCEPT !.finishCalls = @ + 1], "StreamClosedError")
  ELSE on_finish([q EXCEPT !.finished = TRUE, !.finishCalls = @ + 1,
                           !.sent = [t |-> "response", status |-> q.status,
                                     ctype |-> q.ctype, body |-> q.buffer]])

\* finish(): flushes status, headers and buffer to the client, then on_finish();
\* on a connection the client has closed the flush is dropped without an error
finish(q) ==
  IF q.finished THEN Raise([q EXCEPT !.finishCalls = @ + 1], "RuntimeError")
  ELSE on_finish([q EXCEPT !.finished = TRUE, !.finishCalls = @ + 1,
                           !.sent = IF q.closed THEN Dropped
                                    ELSE [t |-> "response", status |-> q.status,
                                          ctype |-> q.ctype, body |-> q.buffer]])

\* send_error(code): clears what was written and sends tornado's error page
send_error(q, code) ==
  finish([q EXCEPT !.exc = NoExc, !.status = code,
                   !.ctype = "text/html; charset=UTF-8",
                   !.buffer = [t |-> "html", code |-> code]])

\* _handle_request_exception: an exception that left prepare() or post()
handle_request_exception(q) ==
  LET q1 == [q EXCEPT !.uncaught = q.exc]
  IN IF q1.finished THEN [q1 EXCEPT !.exc = NoExc]
     ELSE send_error(q1, IF q1.exc = "MissingArgumentError"
                           THEN BAD_REQUEST ELSE INTERNAL_SERVER_ERROR)

----------------------------------------------------------------------------
\* TornadoService

\* __initializeService setting the flag whatever the hook does
initializeService_FlagAnyway(c, hookOK) ==
  LET c1 == [c EXCEPT !.requests = 0, !.hookRuns = @ + 1]
  IN IF hookOK THEN [c1 EXCEPT !.FLAG_INIT_DONE = TRUE]
     ELSE [c1 EXCEPT !.FLAG_INIT_DONE = TRUE, !.hookRaised = TRUE]

\* __initializeService on the handler class c; hookOK: initializeHandler returns
\* (TRUE) or raises (FALSE).  _initMonitoring sets _stats anew before the hook.
initializeService(c, hookOK) ==
  LET c1 == [c EXCEPT !.requests = 0, !.hookRuns = @ + 1]
  IN IF hookOK THEN [c1 EXCEPT !.FLAG_INIT_DONE = TRUE]
     ELSE [c1 EXCEPT !.hookRaised = TRUE]

\* initialize without the count of the request
initialize_NoCount(q, c, hookOK) ==
  LET q1 == [q EXCEPT !.authorized = FALSE, !.method = "None",
                      !.credDict = PyNone, !.httpError = HTTP_OK]
      c1 == IF c.FLAG_INIT_DONE THEN c ELSE initializeService(c, hookOK)
  IN IF ~c.FLAG_INIT_DONE /\ ~hookOK
       THEN [q |-> [q1 EXCEPT !.httpError = INTERNAL_SERVER_ERROR,
                              !.afterRaise = c1.hookRaised],
             c |-> c1]
       ELSE [q |-> [q1 EXCEPT !.initOK = TRUE, !.afterRaise = c1.hookRaised],
             c |-> c1]

\* initialize entering __initializeService whatever the flag says
initialize_AlwaysInit(q, c, hookOK) ==
  LET q1 == [q EXCEPT !.authorized = FALSE, !.method = "None",
                      !.credDict = PyNone, !.httpError = HTTP_OK]
      c1 == initializeService(c, hookOK)
  IN IF ~c.FLAG_INIT_DONE /\ ~hookOK
       THEN [q |-> [q1 EXCEPT !.httpError = INTERNAL_SERVER_ERROR,
                              !.afterRaise = c1.hookRaised],
             c |-> c1]
       ELSE [q |-> [q1 EXCEPT !.initOK = TRUE, !.afterRaise = c1.hookRaised],
             c |-> [c1 EXCEPT !.requests = @ + 1]]

\* initialize setting up the monitoring, and _stats with it, at every request
initialize_ResetsStats(q, c, hookOK) ==
  LET q1 == [q EXCEPT !.authorized = FALSE, !.method = "None",
                      !.credDict = PyNone, !.httpError = HTTP_OK]
      c1 == IF c.FLAG_INIT_DONE THEN [c EXCEPT !.requests = 0]
            ELSE initializeService(c, hookOK)
  IN IF ~c.FLAG_INIT_DONE /\ ~hookOK
       THEN [q |-> [q1 EXCEPT !.httpError = INTERNAL_SERVER_ERROR,
                              !.afterRaise = c1.hookRaised],
             c |-> c1]
       ELSE [q |-> [q1 EXCEPT !.initOK = TRUE, !.afterRaise = c1.hookRaised],
             c |-> [c1 EXCEPT !.requests = @ + 1]]

\* initialize: the new values of the instance (q) and of its class (c)
initialize(q, c, hookOK) ==
  LET q1 == [q EXCEPT !.authorized = FALSE, !.method = "None",
                      !.credDict = PyNone, !.httpError = HTTP_OK]
      c1 == IF c.FLAG_INIT_DONE THEN c ELSE initializeService(c, hookOK)
  IN IF ~c.FLAG_INIT_DONE /\ ~hookOK
       THEN [q |-> [q1 EXCEPT !.httpError = INTERNAL_SERVER_ERROR,
                              !.afterRaise = c1.hookRaised],
             c |-> c1]
       ELSE [q |-> [q1 EXCEPT !.initOK = TRUE, !.afterRaise = c1.hookRaised],
             c |-> [c1 EXCEPT !.requests = @ + 1]]

\* __write_return without the removal of CallStack
write_return_KeepCallStack(q, dictionary) ==
  LET q1 == set_status([q EXCEPT !.writeCalls = @ + 1], q.httpError)
  IN IF Truthy(q.rawContent)
       THEN write(set_header(q1, "application/octet-stream"), dictionary)
       ELSE write(set_header(q1, "application/json"), encode(dictionary))

\* __write_return sending the JSON text itself when rawContent is set
write_return_RawEncoded(q, dictionary) ==
  LET d == IF IsDict(dictionary) /\ "CallStack" \in DOMAIN dictionary.d
             THEN PyDict(DelKey(dictionary.d, "CallStack"))
             ELSE dictionary
      q1 == set_status([q EXCEPT !.writeCalls = @ + 1], q.httpError)
  IN IF Truthy(q.rawContent)
       THEN write(set_header(q1, "application/octet-stream"), encode(d))
       ELSE write(set_header(q1, "application/json"), encode(d))

\* __write_return leaving the status code at OK for the next write
write_return_ResetsStatus(q, dictionary) ==
  LET d == IF IsDict(dictionary) /\ "CallStack" \in DOMAIN dictionary.d
             THEN PyDict(DelKey(dictionary.d, "CallStack"))
             ELSE dictionary
      q1 == set_status([q EXCEPT !.writeCalls = @ + 1], q.httpError)
      q2 == IF Truthy(q.rawContent)
              THEN write(set_header(q1, "application/octet-stream"), d)
              ELSE write(set_header(q1, "application/json"), encode(d))
  IN [q2 EXCEPT !.httpError = HTTP_OK]

\* __write_return
write_return(q, dictionary) ==
  LET d == IF IsDict(dictionary) /\ "CallStack" \in DOMAIN dictionary.d
             THEN PyDict(DelKey(dictionary.d, "CallStack"))
             ELSE dictionary
      q1 == set_status([q EXCEPT !.writeCalls = @ + 1], q.httpError)
  IN IF Truthy(q.rawContent)
       THEN write(set_header(q1, "application/octet-stream"), d)
       ELSE write(set_header(q1, "application/json"), encode(d))

\* reportUnauthorizedAccess; the log line reads self.credDict['DN']
reportUnauthorizedAccess(q, errorCode) ==
  IF ~IsDict(q.credDict) THEN Raise(q, "TypeError")
  ELSE LET q1 == write_return([q EXCEPT !.httpError = errorCode],
                              S_ERROR(ENOAUTH, "Unauthorized query"))
       IN IF Ok(q1) THEN finish(q1) ELSE q1

\* default of the errorCode parameter of reportUnauthorizedAccess
DEFAULT_ERROR_CODE == 401

\* prepare, lines 199-201: the arguments of the request
prepareArguments(q) ==
  IF q.methodArg = MissingArg THEN Raise(q, "MissingArgumentError")
  ELSE [q EXCEPT !.method = q.methodArg, !.rawContent = q.rawArg]

InitErrorMessage ==
  "Service can't be initialized ! Check logs on the server for more informations."

\* prepare without the check of the initialization flag
prepareInitCheck_Skipped(q, c) == q

\* prepare, lines 203-208: the check of the initialization flag (no return)
prepareInitCheck(q, c) ==
  IF ~c.FLAG_INIT_DONE
    THEN LET q1 == write_return(q, encode(PyStr(InitErrorMessage)))
         IN IF Ok(q1) THEN finish(q1) ELSE q1
    ELSE q

\* _gatherPeerCredentials updating the dictionary with what the caller sent
gatherPeerCredentials_ExtraMerged(q) ==
  IF ~ChainIsValid(q.chain) THEN Raise([q EXCEPT !.credCalls = @ + 1], "Exception")
  ELSE IF q.extraArg.t \in {"absent", "text"}
    THEN [q EXCEPT !.credCalls = @ + 1, !.credDict = Credentials(q.chain)]
  ELSE IF ~Decodable(q.extraArg) THEN Raise([q EXCEPT !.credCalls = @ + 1], "ValueError")
  ELSE [q EXCEPT !.credCalls = @ + 1,
                 !.credDict = PyDict([x \in DOMAIN Credentials(q.chain).d \cup
                                             DOMAIN decode(q.extraArg).d |->
                                        IF x \in DOMAIN decode(q.extraArg).d
                                          THEN decode(q.extraArg).d[x]
                                          ELSE Credentials(q.chain).d[x]])]

\* _gatherPeerCredentials: raises when the chain is absent or unreadable, or
\* when a non-empty extraCredentials does not decode (lines 399-402)
gatherPeerCredentials(q) ==
  IF ~ChainIsValid(q.chain) THEN Raise([q EXCEPT !.credCalls = @ + 1], "Exception")
  ELSE IF q.extraArg.t \in {"absent", "text"}
    THEN [q EXCEPT !.credCalls = @ + 1, !.credDict = Credentials(q.chain)]
  ELSE IF ~Decodable(q.extraArg) THEN Raise([q EXCEPT !.credCalls = @ + 1], "ValueError")
  ELSE [q EXCEPT !.credCalls = @ + 1,
                 !.credDict = PyDict(SetKey(Credentials(q.chain).d, "extraCredentials",
                                            decode(q.extraArg)))]

\* prepare, lines 210-216: credentials; the except clause reports and goes on
prepareCredentials(q) ==
  LET q1 == gatherPeerCredentials(q)
  IN IF Ok(q1) THEN q1
     ELSE reportUnauthorizedAccess([q1 EXCEPT !.exc = NoExc], UNAUTHORIZED)

\* the gate with the denial not reported: the request goes on
prepareAuthorize_NoReport(q, allow) ==
  IF ~IsDict(q.credDict) THEN Raise(q, "TypeError")
  ELSE [q EXCEPT !.gateCalls = @ + 1, !.authorized = allow]

\* prepare, lines 218-225: the authorization gate; allow: what authQuery returns
prepareAuthorize(q, allow) ==
  IF ~IsDict(q.credDict) THEN Raise(q, "TypeError")
  ELSE LET q1 == [q EXCEPT !.gateCalls = @ + 1, !.authorized = allow,
                           !.gateQuery = [t |-> "query", method |-> q.method,
                                          credDict |-> q.credDict,
                                          hardcodedAuth |-> hardcodedAuth(q.method)]]
       IN IF allow THEN q1 ELSE reportUnauthorizedAccess(q1, DEFAULT_ERROR_CODE)

\* history: the instance read the class attributes attrs, set by
\* __initializeService
readShared(q, c, attrs) ==
  IF c.FLAG_INIT_DONE THEN q ELSE [q EXCEPT !.usedUninit = @ \cup attrs]

\* prepare; line 201 reads self.log and self._serviceName, line 223
\* self._authManager
prepare(q, c, allow) ==
  LET q1 == prepareArguments(q)
      q1n == IF Ok(q1) THEN readShared(q1, c, {"log", "_serviceName"}) ELSE q1
      q2 == IF Ok(q1n) THEN prepareInitCheck(q1n, c) ELSE q1n
      q3 == IF Ok(q2) THEN prepareCredentials(q2) ELSE q2
      q4 == IF Ok(q3) THEN prepareAuthorize(q3, allow) ELSE q3
  IN IF q4.gateCalls > q3.gateCalls THEN readShared(q4, c, {"_authManager"}) ELSE q4

\* Number of positional arguments export_<method> takes
Arity(method) == IF method = "echo" THEN 1 ELSE 0

\* What a call returns (ret, and the instance q afterwards) or raises
Returns(q, ret) == [q |-> q, ret |-> ret, type |-> NoExc, msg |-> ""]
Raises(q, type, msg) == [q |-> q, ret |-> PyNone, type |-> type, msg |-> msg]

\* export_ping; dInfo['time'] is a datetime
export_ping(q) == Returns(q, S_OK(PyDInfo))

\* export_echo returning the list of its arguments
export_echo_ReturnsArgs(q) == Returns(q, S_OK([t |-> "list", v |-> q.args]))

\* export_echo(data)
export_echo(q) == Returns(q, S_OK(q.args[1]))

\* export_whoami returning the dictionary with the chain object in it
export_whoami_KeepChain(q) == Returns(q, S_OK(q.credDict))

\* export_whoami; del credDict['x509Chain'] acts on self.credDict itself
export_whoami(q) ==
  LET cd == PyDict(DelKey(q.credDict.d, "x509Chain"))
  IN Returns([q EXCEPT !.credDict = cd], S_OK(cd))

\* export_restricted, a method the service supplies; outcome: what it does
export_restricted(q, outcome) ==
  CASE outcome = "ok" -> Returns(q, S_OK(PyStr("result")))
    [] outcome = "error" -> Returns(q, S_ERROR(NoErrno, "failed"))
    [] OTHER -> Raises(q, "Exception", "boom")

\* The call method(*args) of an exported method: the value it returns (ret) or
\* the exception it raises (type, msg), and the instance afterwards (q).
callMethod(q, outcome) ==
  IF Len(q.args) # Arity(q.method)
    THEN Raises(q, "TypeError", "export_" \o q.method \o "() takes exactly "
                                \o ToString(Arity(q.method) + 1) \o " arguments")
  ELSE LET qi == [q EXCEPT !.invoked = TRUE]
       IN CASE q.method = "ping" -> export_ping(qi)
            [] q.method = "echo" -> export_echo(qi)
            [] q.method = "whoami" -> export_whoami(qi)
            [] OTHER -> export_restricted(qi, outcome)

\* an unknown method reported as an internal error
unknownMethod_Status500(q) ==
  [q EXCEPT !.httpError = INTERNAL_SERVER_ERROR,
            !.retVal = S_ERROR(NoErrno, "Unknown method " \o q.method)]

\* __executeMethod, lines 302-304: getattr finds no export_<method>
unknownMethod(q) ==
  [q EXCEPT !.httpError = NOT_IMPLEMENTED,
            !.retVal = S_ERROR(NoErrno, "Unknown method " \o q.method)]

\* the except clause setting the status of the response itself
handlerFailed_SetsStatus(q, type, msg) ==
  set_status([q EXCEPT !.raised = msg, !.raisedType = type,
                       !.retVal = S_ERROR(NoErrno, Repr(type, msg)),
                       !.httpError = INTERNAL_SERVER_ERROR],
             INTERNAL_SERVER_ERROR)

\* the exception reported by str(e) in place of repr(e)
handlerFailed_StrMessage(q, type, msg) ==
  [q EXCEPT !.raised = msg, !.raisedType = type,
            !.retVal = S_ERROR(NoErrno, msg),
            !.httpError = INTERNAL_SERVER_ERROR]

\* the exception reported without setting the status
handlerFailed_NoStatus(q, type, msg) ==
  [q EXCEPT !.raised = msg, !.raisedType = type,
            !.retVal = S_ERROR(NoErrno, Repr(type, msg))]

\* __executeMethod, lines 314-317: the call raised an exception of the given
\* type with message msg
handlerFailed(q, type, msg) ==
  [q EXCEPT !.raised = msg, !.raisedType = type,
            !.retVal = S_ERROR(NoErrno, Repr(type, msg)),
            !.httpError = INTERNAL_SERVER_ERROR]

\* self.initializeRequest(); hook: what it does
initializeRequest(q, hook) ==
  IF hook = "pass" THEN [q EXCEPT !.requestHook = "done"]
  ELSE Raise([q EXCEPT !.requestHook = "raised"], "Exception")

\* __executeMethod calling the method without initializeRequest
executeCall_NoHook(q, hook, outcome) ==
  LET call == callMethod(q, outcome)
  IN IF call.type = NoExc
       THEN [call.q EXCEPT !.retVal = call.ret]
       ELSE handlerFailed(call.q, call.type, call.msg)

\* __executeMethod calling initializeRequest before the try statement
executeCall_HookOutsideTry(q, hook, outcome) ==
  LET q1 == initializeRequest(q, hook)
  IN IF ~Ok(q1) THEN q1
     ELSE LET call == callMethod(q1, outcome)
          IN IF call.type = NoExc
               THEN [call.q EXCEPT !.retVal = call.ret]
               ELSE handlerFailed(call.q, call.type, call.msg)

\* __executeMethod, lines 310-319: the hook, the call and the except clause
executeCall(q, hook, outcome) ==
  LET q1 == initializeRequest(q, hook)
  IN IF ~Ok(q1) THEN handlerFailed([q1 EXCEPT !.exc = NoExc], "Exception", "hook")
     ELSE LET call == callMethod(q1, outcome)
          IN IF call.type = NoExc
               THEN [call.q EXCEPT !.retVal = call.ret]
               ELSE handlerFailed(call.q, call.type, call.msg)

\* __executeMethod; an exception of decode leaves it
executeMethod(q, hook, outcome) ==
  LET q0 == [q EXCEPT !.dispatched = TRUE]
  IN IF q0.method \notin ExportedMethods THEN unknownMethod(q0)
     ELSE IF ~Decodable(q0.argsEncoded) THEN Raise(q0, "ValueError")
     ELSE executeCall([q0 EXCEPT !.args = decode(q0.argsEncoded)], hook, outcome)

\* post without the call of finish()
post_NoFinish(q) ==
  IF ~Ok(q) THEN q ELSE write_return(q, q.retVal)

\* post, after the executor has run __executeMethod (lines 249-250);
\* retVal.result() raises what left __executeMethod
post(q) ==
  IF ~Ok(q) THEN q
  ELSE LET q1 == write_return(q, q.retVal)
       IN IF Ok(q1) THEN finish(q1) ELSE q1

\* tornado's _execute around prepare(): an exception is handled, a finished
\* request is not dispatched, any other is handed to post()
afterPrepare(q) ==
  IF ~Ok(q) THEN [handle_request_exception(q) EXCEPT !.pc = "FINISHED"]
  ELSE IF q.finished THEN [q EXCEPT !.pc = "FINISHED"]
  ELSE [q EXCEPT !.pc = "DISPATCHING"]

\* tornado's _execute around post()
afterPost(q) ==
  IF ~Ok(q) THEN [handle_request_exception(q) EXCEPT !.pc = "FINISHED"]
  ELSE [q EXCEPT !.pc = "FINISHED"]

----------------------------------------------------------------------------
\* Actions

\* the class attributes kept on one class that all services share
cls_Shared(s) == "A"

\* The class that holds what __initializeService and initialize assign through
\* cls and self (__FLAG_INIT_DONE, _stats, ...): the handler class of service s
cls(s) == s

\* A request arrives in slot r: tornado builds the handler instance, whose
\* constructor runs initialize()
InitializeFrom(r, methods, raws, chains, texts, extras) ==
  /\ req[r].pc = "IDLE"
  /\ ioloop = {}
  /\ accepted < MaxRequests
  /\ \E s \in deployed, m \in methods, raw \in raws,
        chain \in chains, args \in texts, extra \in extras,
        hookOK \in BOOLEAN :
       /\ svc[cls(s)].FLAG_INIT_DONE => hookOK
       /\ LET q0 == [IdleRequest EXCEPT !.service = s, !.methodArg = m, !.rawArg = raw,
                                        !.chain = chain, !.argsEncoded = args,
                                        !.extraArg = extra]
              i == initialize(q0, svc[cls(s)], hookOK)
          IN /\ req' = [req EXCEPT ![r] = [i.q EXCEPT !.pc = "ACCEPTED"]]
             /\ svc' = [svc EXCEPT ![cls(s)] = i.c]
  /\ ioloop' = {r}
  /\ accepted' = accepted + 1
  /\ UNCHANGED <<deployed, secLog, ce>>

\* The requests of this specification bring no extraCredentials
Initialize(r) ==
  InitializeFrom(r, MethodArgs, RawContentArgs, Chains, ArgTexts, {NoExtra})

\* method, credDict, _httpError and rawContent kept where the requests in the
\* same stage share them
self_Singleton(r) ==
  LET o == req[CHOOSE x \in Slots : req[x].pc = req[r].pc]
  IN [req[r] EXCEPT !.method = o.method, !.rawContent = o.rawContent,
                    !.credDict = o.credDict, !.httpError = o.httpError]

\* The handler instance of request r: the class is instantiated at each
\* request, and self.method, self.credDict, self._httpError, self.rawContent
\* are attributes of that instance
self(r) == req[r]

\* post() calling __executeMethod itself: the callback goes on on the IOLoop
loopAfterPrepare_Inline(r, q) == {r}

\* Who runs on the IOLoop after prepare(): the callback of r goes on when it
\* finished the request; else post() yields at run_in_executor (line 245) and
\* the IOLoop is free while the executor works
loopAfterPrepare(r, q) == IF q.pc = "FINISHED" THEN {r} ELSE {}

\* prepare() and, unless it finished the request, the call of post() that hands
\* __executeMethod to the executor
Prepare(r) ==
  /\ req[r].pc = "ACCEPTED"
  /\ ioloop = {r}
  /\ LET q == self(r)
         g == gatherPeerCredentials(q)
         decisions == IF Ok(g) /\ q.methodArg # MissingArg
                        THEN authQuery(q.methodArg, g.credDict,
                                       hardcodedAuth(q.methodArg))
                        ELSE {FALSE}
     IN \E allow \in decisions :
          req' = [req EXCEPT ![r] = afterPrepare(prepare(q, svc[cls(q.service)], allow))]
  /\ ioloop' = loopAfterPrepare(r, req'[r])
  /\ UNCHANGED <<svc, accepted, deployed, secLog, ce>>

\* __executeMethod in a thread of the executor
ExecuteMethod(r) ==
  /\ req[r].pc = "DISPATCHING"
  /\ \E hook \in HookOutcomes, outcome \in Outcomes :
       /\ self(r).method # "restricted" => outcome = "ok"
       /\ req' = [req EXCEPT ![r] = [executeMethod(self(r), hook, outcome)
                                       EXCEPT !.pc = "RESPONDING"]]
  /\ UNCHANGED <<svc, ioloop, accepted, deployed, secLog, ce>>

\* The coroutine post() resumes on the IOLoop: it writes the result and finishes
Post(r) ==
  /\ req[r].pc = "RESPONDING"
  /\ ioloop = {}
  /\ req' = [req EXCEPT ![r] = afterPost(post(self(r)))]
  /\ ioloop' = {r}
  /\ UNCHANGED <<svc, accepted, deployed, secLog, ce>>

\* The IOLoop callback that finished the request returns and the handler
\* instance is dropped
Release(r) ==
  /\ req[r].pc = "FINISHED"
  /\ ioloop = {r}
  /\ req' = [req EXCEPT ![r] = IdleRequest]
  /\ ioloop' = {}
  /\ UNCHANGED <<svc, accepted, deployed, secLog, ce>>

Init ==
  /\ svc = [s \in Services |-> InitClass]
  /\ req = [r \in Slots |-> IdleRequest]
  /\ ioloop = {}
  /\ accepted = 0
  /\ deployed = {"A"}
  /\ secLog = InitLog
  /\ ce = IdleCE

Next ==
  \E r \in Slots :
    \/ Initialize(r)
    \/ Prepare(r)
    \/ ExecuteMethod(r)
    \/ Post(r)
    \/ Release(r)

Spec == Init /\ [][Next]_vars

----------------------------------------------------------------------------
\* What the client of request r received

Finished(r) == req[r].pc = "FINISHED"
Sent(r) == req[r].sent
HasResponse(r) == Sent(r).t = "response"

\* The body is the JSON text of a dictionary (an envelope)
IsEnvelope(b) == b.t = "json" /\ b.v.t = "dict"
Envelope(b) == b.v.d
BodyKeys(b) == IF IsEnvelope(b) THEN DOMAIN Envelope(b) ELSE {}

----------------------------------------------------------------------------
\* C1: the setup hook initializeHandler runs at most once per service for the
\* lifetime of the process, also after a run of the hook that raised.
C1_HookRunsAtMostOnce ==
  \A s \in Services : svc[s].hookRuns <= 1

\* C2: once the setup hook of a service has raised, every later request to the
\* service gets the fatal initialization error (500) and none is dispatched.
\* (Stated for the requests that name a method: one without the method argument
\* is refused with 400 before the flag is looked at.)
C2_InitErrorForEver ==
  \A r \in Slots :
    (req[r].afterRaise /\ req[r].methodArg # MissingArg) =>
      /\ req[r].pc \notin {"DISPATCHING", "RESPONDING"}
      /\ ~req[r].dispatched
      /\ Finished(r) => Sent(r).status = INTERNAL_SERVER_ERROR

\* C3: no request is in or past the entry of the dispatch stage while the
\* initialization flag of its service is false.
C3_NoDispatchUninitialized ==
  \A r \in Slots :
    (req[r].pc \in {"DISPATCHING", "RESPONDING"} \/ req[r].dispatched \/ req[r].invoked)
      => svc[req[r].service].FLAG_INIT_DONE

\* a request is executing in the pool for a service whose hook raised before
C3_Witness ==
  \E r \in Slots :
    /\ req[r].pc = "DISPATCHING"
    /\ svc[req[r].service].hookRaised

\* C4: an exported method is invoked only after authQuery was called for the
\* same request and returned allow; also for the methods open to all.
C4_InvokedOnlyIfAllowed ==
  \A r \in Slots :
    req[r].invoked => req[r].gateCalls >= 1 /\ req[r].authorized

\* the method ping, open to all, was invoked after the gate had been called
C4_Witness ==
  \E r \in Slots :
    req[r].invoked /\ req[r].method = "ping" /\ req[r].gateCalls = 1

\* C5: a request whose credential extraction raised (chain absent or
\* unreadable) is answered with status 401 and a body without Value.
\* (Stated for the requests to a service whose initialization succeeded.)
C5_BadChainGets401 ==
  \A r \in Slots :
    (Finished(r) /\ req[r].initOK /\ req[r].credCalls > 0
                 /\ ~ChainIsValid(req[r].chain))
      => /\ Sent(r).status = UNAUTHORIZED
         /\ "Value" \notin BodyKeys(Sent(r).body)

\* C6: every request whose method name has no registered handler is answered
\* with status 501.
C6_UnknownMethodGets501 ==
  \A r \in Slots :
    (Finished(r) /\ req[r].methodArg \notin ExportedMethods
                 /\ req[r].methodArg # MissingArg)
      => Sent(r).status = NOT_IMPLEMENTED

\* C6, amended: a request whose method name has no registered handler and that
\* passed initialization, credential extraction and the gate is answered with
\* status 501 and an envelope whose OK is false.
C6_DispatchedUnknownMethodGets501 ==
  \A r \in Slots :
    (Finished(r) /\ req[r].methodArg \notin ExportedMethods
                 /\ req[r].methodArg # MissingArg
                 /\ req[r].initOK /\ req[r].authorized)
      => /\ Sent(r).status = NOT_IMPLEMENTED
         /\ IsEnvelope(Sent(r).body)
         /\ Envelope(Sent(r).body).OK = FALSE

\* an unknown method went through __executeMethod and was answered
C6_Witness ==
  \E r \in Slots :
    /\ Finished(r) /\ req[r].methodArg = "nosuch" /\ req[r].dispatched
    /\ Sent(r).status = NOT_IMPLEMENTED

\* C7: a request with an extracted identity that the policy evaluator denies
\* is answered with the status 403, not the 401 of a missing identity, and an
\* envelope whose OK is false.
C7_DeniedGets403 ==
  \A r \in Slots :
    (Finished(r) /\ req[r].initOK /\ req[r].gateCalls > 0 /\ ~req[r].authorized)
      => /\ Sent(r).status = FORBIDDEN
         /\ IsEnvelope(Sent(r).body)
         /\ Envelope(Sent(r).body).OK = FALSE

\* C8: a handler that raised an exception with message m is answered with
\* status 500 and an envelope with OK false and Message exactly m.
C8_MessageIsExceptionText ==
  \A r \in Slots :
    (Finished(r) /\ req[r].invoked /\ req[r].raisedType # NoExc)
      => /\ req[r].uncaught = NoExc
         /\ Sent(r).status = INTERNAL_SERVER_ERROR
         /\ IsEnvelope(Sent(r).body)
         /\ Envelope(Sent(r).body).OK = FALSE
         /\ Envelope(Sent(r).body).Message = req[r].raised

\* C8, amended: the exception does not leave __executeMethod, the status is 500
\* and the envelope has OK false and, as Message, the repr() of the exception.
C8_MessageIsExceptionRepr ==
  \A r \in Slots :
    (Finished(r) /\ req[r].raisedType # NoExc)
      => /\ req[r].uncaught = NoExc
         /\ Sent(r).status = INTERNAL_SERVER_ERROR
         /\ IsEnvelope(Sent(r).body)
         /\ Envelope(Sent(r).body).OK = FALSE
         /\ Envelope(Sent(r).body).Message = Repr(req[r].raisedType, req[r].raised)

\* the handler raised Exception("boom") and the request was answered
C8_Witness ==
  \E r \in Slots :
    /\ Finished(r) /\ req[r].invoked /\ req[r].raised = "boom"
    /\ Envelope(Sent(r).body).Message = "Exception('boom',)"

\* C9: no body sent holds a CallStack field, whether or not the error it was
\* made from carried one.
C9_NoCallStackSent ==
  \A r \in Slots :
    HasResponse(r) => "CallStack" \notin BodyKeys(Sent(r).body)

\* an Error envelope was sent that was made from an error carrying a CallStack
C9_Witness ==
  \E r \in Slots :
    /\ Finished(r) /\ IsDict(req[r].retVal)
    /\ "CallStack" \in DOMAIN req[r].retVal.d
    /\ IsEnvelope(Sent(r).body)
    /\ Envelope(Sent(r).body).OK = FALSE

\* The handler returned the envelope itself, without raising
ReturnedByHandler(r) == req[r].invoked /\ req[r].raisedType = NoExc

\* C10: the status is at least 400 whenever the envelope sent is an Error, also
\* one a handler returned without raising, and 200 whenever it is a Success.
C10_StatusFollowsEnvelope ==
  \A r \in Slots :
    (HasResponse(r) /\ IsEnvelope(Sent(r).body))
      => /\ Envelope(Sent(r).body).OK = FALSE => Sent(r).status >= BAD_REQUEST
         /\ Envelope(Sent(r).body).OK = TRUE => Sent(r).status = HTTP_OK

\* C10, amended: the status is at least 400 whenever the Error envelope was made
\* by the framework (denial, unknown method, exception), it is 200 for an Error
\* envelope a handler returned without raising, and 200 for every Success.
C10_StatusFollowsFrameworkError ==
  \A r \in Slots :
    (HasResponse(r) /\ IsEnvelope(Sent(r).body))
      => /\ (Envelope(Sent(r).body).OK = FALSE /\ ~ReturnedByHandler(r))
              => Sent(r).status >= BAD_REQUEST
         /\ (Envelope(Sent(r).body).OK = FALSE /\ ReturnedByHandler(r))
              => Sent(r).status = HTTP_OK
         /\ Envelope(Sent(r).body).OK = TRUE => Sent(r).status = HTTP_OK

\* a handler returned an Error envelope and it was sent with status 200
C10_Witness ==
  \E r \in Slots :
    /\ Finished(r) /\ ReturnedByHandler(r) /\ IsEnvelope(Sent(r).body)
    /\ Envelope(Sent(r).body).OK = FALSE
    /\ Sent(r).status = HTTP_OK

----
\* rawContent

\* The request asked for raw content: self.rawContent is true in Python
RawRequested(r) == Truthy(req[r].rawContent)

\* C11: a successful call with rawContent set is answered with exactly the
\* success value of the handler as body, not the envelope, and with
\* Content-Type application/octet-stream.
C11_RawBodyIsValue ==
  \A r \in Slots :
    (Finished(r) /\ RawRequested(r) /\ ReturnedByHandler(r) /\ req[r].retVal.d.OK)
      => /\ HasResponse(r)
         /\ Sent(r).ctype = "application/octet-stream"
         /\ Sent(r).body = req[r].retVal.d.Value

\* The call of r ended in an Error of an initialised service: the gate denied
\* it, the method is unknown, the handler raised or returned an Error
EndedInError(r) ==
  LET q == req[r]
  IN /\ q.initOK
     /\ \/ q.gateCalls > 0 /\ ~q.authorized
        \/ q.dispatched /\ q.method \notin ExportedMethods
        \/ q.raisedType # NoExc
        \/ ReturnedByHandler(r) /\ ~q.retVal.d.OK

\* C12: when rawContent is set and the call ends in an Error (denial, unknown
\* method, exception of the handler, Error returned by the handler), the body
\* is the JSON text of the Error envelope and the content type is the JSON one,
\* not application/octet-stream.
C12_RawErrorIsStructured ==
  \A r \in Slots :
    (Finished(r) /\ RawRequested(r) /\ EndedInError(r))
      => /\ HasResponse(r)
         /\ IsEnvelope(Sent(r).body)
         /\ Envelope(Sent(r).body).OK = FALSE
         /\ Sent(r).ctype = "application/json; charset=UTF-8"

\* a handler raised while rawContent was set, and the response was sent
C12_Witness ==
  \E r \in Slots :
    /\ Finished(r) /\ RawRequested(r) /\ req[r].invoked
    /\ req[r].raisedType # NoExc
    /\ HasResponse(r)

----
\* The request counter and the initialization flag

\* The requests of service s this step accepts: initialize() ran for them
AcceptedNow(s) ==
  {r \in Slots : req[r].pc = "IDLE" /\ req'[r].pc = "ACCEPTED" /\ req'[r].service = s}

\* A ping with a readable certificate chain
IsPing(r) == req[r].methodArg = "ping" /\ ChainIsValid(req[r].chain)

C16_FlagSetOnceForEver ==
  [][\A s \in Services :
       svc[s].FLAG_INIT_DONE
         => svc'[s].FLAG_INIT_DONE /\ svc'[s].hookRuns = svc[s].hookRuns]_vars

\* a request was accepted after the one that set the flag
C16_Witness ==
  /\ svc["A"].FLAG_INIT_DONE
  /\ svc["A"].requests >= 2
  /\ \E r \in Slots : req[r].pc = "ACCEPTED"

----
\* Every request is answered

\* The IOLoop runs the callbacks that are ready and the executor runs the calls
\* it was given: no step of a request in progress is put off for ever.
\* prepare() follows initialize() in the same callback; its condition is
\* WF_vars(Prepare(r)) written out: Prepare(r) is enabled exactly in ACCEPTED and
\* is the only step that leaves it.
Fairness ==
  \A r \in Slots :
    /\ []<>(req[r].pc # "ACCEPTED")
    /\ WF_vars(ExecuteMethod(r))
    /\ WF_vars(Post(r))
    /\ WF_vars(Release(r))

\* One request of every path: allowed and denied, with and without a readable
\* chain, of a known and of an unknown method, with and without rawContent,
\* with arguments that decode and that do not
LiveMethods == {"ping", "restricted", "nosuch", MissingArg}
LiveRawContentArgs == {PyFalse, "true"}
LiveChains == {"absent", "alice", "bob"}
LiveArgTexts == {encode(<< >>), [t |-> "garbage"]}

LiveInitialize(r) ==
  InitializeFrom(r, LiveMethods, LiveRawContentArgs, LiveChains, LiveArgTexts, {NoExtra})

LiveNext ==
  \E r \in Slots :
    \/ LiveInitialize(r)
    \/ Prepare(r)
    \/ ExecuteMethod(r)
    \/ Post(r)
    \/ Release(r)

FairSpec == Init /\ [][LiveNext]_vars /\ Fairness

\* C14: every accepted request is finished in the end with a response sent,
\* whether it succeeds or fails at initialization, authentication, authorization
\* or dispatch (the handler, one step of the executor, terminates).
C14_AcceptedIsAnswered ==
  \A r \in Slots :
    (req[r].pc = "ACCEPTED") ~> (Finished(r) /\ HasResponse(r))

\* a request whose arguments did not decode went through the executor and was
\* answered, while another one is still in the executor
C14_Witness ==
  \E r, o \in Slots :
    /\ Finished(r) /\ HasResponse(r)
    /\ req[r].dispatched /\ req[r].uncaught # NoExc
    /\ req[o].pc = "RESPONDING"

----
\* Failure paths

\* The stages a finished request failed at
InitFailed(r) == ~req[r].initOK /\ req[r].methodArg # MissingArg
CredentialsFailed(r) == req[r].initOK /\ req[r].credCalls > 0 /\ ~ChainIsValid(req[r].chain)
Denied(r) == req[r].initOK /\ req[r].gateCalls > 0 /\ ~req[r].authorized
UnknownMethod(r) == req[r].dispatched /\ req[r].method \notin ExportedMethods
Undecodable(r) ==
  req[r].dispatched /\ req[r].method \in ExportedMethods /\ ~Decodable(req[r].argsEncoded)
Raised(r) == req[r].raisedType # NoExc

\* C15: on every failure path (initialization, credentials, denial, unknown
\* method, undecodable args, exception of the per-request hook or of the
\* handler) the body is an Error envelope with OK false and a Message, and the
\* status is 401 for credentials and denial, 501 for an unknown method and 5xx
\* for the others.
C15_FailureIsErrorEnvelope ==
  \A r \in Slots :
    (Finished(r) /\ (InitFailed(r) \/ CredentialsFailed(r) \/ Denied(r)
                       \/ UnknownMethod(r) \/ Undecodable(r) \/ Raised(r)))
      => /\ HasResponse(r)
         /\ IsEnvelope(Sent(r).body)
         /\ Envelope(Sent(r).body).OK = FALSE
         /\ "Message" \in BodyKeys(Sent(r).body)
         /\ (CredentialsFailed(r) \/ Denied(r)) => Sent(r).status = UNAUTHORIZED
         /\ UnknownMethod(r) => Sent(r).status = NOT_IMPLEMENTED
         /\ (InitFailed(r) \/ Undecodable(r) \/ Raised(r))
              => Sent(r).status >= INTERNAL_SERVER_ERROR

----
\* Shared state of the service

\* C17: no request reads the shared state of its service (logger,
\* authorization manager, counters, service info) while the initialization flag
\* of the service is false.
C17_NoUseOfUninitialized ==
  \A r \in Slots : req[r].usedUninit = {}

----
\* The default methods

\* The call of method m by request r reached export_<m> and r is finished
Served(r, m) == Finished(r) /\ req[r].method = m /\ req[r].invoked

\* C18: an authorized call of echo with argument v, answered in the structured
\* encoding, has status 200 and a Success envelope whose decoded Value is v, for
\* every v the request body can hold.
C18_EchoRoundTrip ==
  \A r \in Slots :
    (Served(r, "echo") /\ ~RawRequested(r))
      => /\ HasResponse(r)
         /\ Sent(r).status = HTTP_OK
         /\ Decodable(Sent(r).body)
         /\ IsDict(decode(Sent(r).body))
         /\ decode(Sent(r).body).d.OK = TRUE
         /\ decode(Sent(r).body).d.Value = decode(req[r].argsEncoded)[1]

\* echo of a dictionary that has a key CallStack was answered
C18_Witness ==
  \E r \in Slots :
    /\ Served(r, "echo") /\ ~RawRequested(r)
    /\ decode(req[r].argsEncoded)[1] = PyDict([CallStack |-> "v2"])
    /\ HasResponse(r) /\ Sent(r).status = HTTP_OK

\* What _gatherPeerCredentials extracted for request r, without the chain object
IdentityOf(r) == PyDict(DelKey(Credentials(req[r].chain).d, "x509Chain"))

\* C19: whoami is called only for a request the gate allowed, on credentials
\* that were extracted, and the Value of its Success envelope is the credential
\* dictionary without x509Chain, every other field as extracted.
C19_WhoamiIsIdentity ==
  \A r \in Slots :
    Served(r, "whoami")
      => /\ ChainIsValid(req[r].chain)
         /\ req[r].gateCalls = 1 /\ req[r].authorized
         /\ HasResponse(r) /\ IsEnvelope(Sent(r).body)
         /\ Envelope(Sent(r).body).OK = TRUE
         /\ Envelope(Sent(r).body).Value = IdentityOf(r)
         /\ "x509Chain" \notin DOMAIN Envelope(Sent(r).body).Value.d

\* whoami was answered for alice
C19_Witness ==
  \E r \in Slots :
    /\ Served(r, "whoami") /\ req[r].chain = "alice"
    /\ HasResponse(r)
    /\ Envelope(Sent(r).body).Value.d.DN = "/O=Grid/CN=alice"

----
\* The per-request hook

\* C20: whenever export_<method> is called, initializeRequest was called for the
\* same request before and returned; a hook that raised leaves the method
\* uncalled. This holds for every request, whatever happened to others.
C20_HookBeforeHandler ==
  \A r \in Slots :
    /\ req[r].invoked => req[r].requestHook = "done"
    /\ req[r].requestHook = "raised" => ~req[r].invoked /\ req[r].raisedType # NoExc

\* a handler was called after its hook, while the hook of another request raised
C20_Witness ==
  \E r, o \in Slots :
    /\ req[r].invoked /\ req[r].requestHook = "done"
    /\ req[o].requestHook = "raised"

----
\* The executor and the IOLoop

\* Request r is with the executor: handed over, its handler not yet returned
InExecutor(r) == req[r].pc = "DISPATCHING"

\* C21: while the handler of a request is with the executor, that request does
\* not hold the IOLoop: the loop is free, or runs the callback of another
\* request that is being accepted, prepared or answered.
C21_ExecutorDoesNotHoldLoop ==
  \A o \in Slots :
    InExecutor(o)
      => /\ o \notin ioloop
         /\ \A r \in ioloop : req[r].pc \in {"ACCEPTED", "FINISHED"}

\* while o is with the executor, r was accepted, its credentials extracted, the
\* gate asked, and it was answered
C21_Witness ==
  \E o, r \in Slots :
    /\ InExecutor(o)
    /\ Finished(r) /\ ~req[r].dispatched
    /\ req[r].gateCalls = 1 /\ HasResponse(r)

\* What the handler instance q holds of the client connection
Connection(q) ==
  [status |-> q.status, ctype |-> q.ctype, buffer |-> q.buffer,
   finished |-> q.finished, sent |-> q.sent]

\* C22: status, headers, body and finish of a request change only in a step
\* of its callback on the IOLoop (the loop runs it before the step or after
\* it), never in the step of the executor, and a dispatched
\* request has nothing written until the executor has returned.
C22_WritesOnlyOnLoop ==
  /\ [][\A r \in Slots :
          Connection(req'[r]) # Connection(req[r])
            => /\ ioloop = {r} \/ ioloop' = {r}
               /\ req[r].pc # "DISPATCHING"]_vars
  /\ [](\A r \in Slots :
          req[r].pc \in {"DISPATCHING", "RESPONDING"}
            => Connection(req[r]) = Connection(IdleRequest))

\* a handler raised in the executor and nothing is written yet
C22_Witness ==
  \E r \in Slots :
    /\ req[r].pc = "RESPONDING" /\ req[r].raisedType # NoExc
    /\ req[r].httpError = INTERNAL_SERVER_ERROR
    /\ req[r].status = HTTP_OK /\ req[r].buffer = NoBody

----
\* The audit line

\* C23: every finished request has logged exactly one line of on_finish,
\* whichever path it took.
C23_OneAuditLine ==
  \A r \in Slots :
    /\ Finished(r) => req[r].auditLines = 1
    /\ req[r].auditLines <= 1

\* a request finished by the initialization error, whose prepare() went on to
\* the gate and the denial, logged one line
C23_Witness ==
  \E r \in Slots :
    /\ Finished(r) /\ ~req[r].initOK /\ req[r].gateCalls = 1
    /\ req[r].uncaught = "RuntimeError"
    /\ req[r].auditLines = 1

----
\* The order of the stages

\* C24: the stages run in the order credentials, gate, dispatch, response, and
\* a failing stage exits early: after a failed initialization check neither
\* the credentials are extracted nor the gate is asked, after a failed
\* extraction the gate is not asked.
C24_FailingStageExitsEarly ==
  \A r \in Slots :
    /\ req[r].gateCalls > 0 => req[r].credCalls > 0
    /\ req[r].dispatched => req[r].gateCalls > 0
    /\ (Finished(r) /\ InitFailed(r)) => req[r].credCalls = 0 /\ req[r].gateCalls = 0
    /\ (Finished(r) /\ CredentialsFailed(r)) => req[r].gateCalls = 0

----
\* The setup hook raises

\* The setup hook raised in initialize() of request r
HookRaisedFor(r) == req[r].pc # "IDLE" /\ ~req[r].initOK

\* C25: when the setup hook raises during a request, the flag of the service
\* stays false, the request counter is not incremented, and the request is
\* answered with status 500.
C25_HookRaisedGets500 ==
  \A r \in Slots :
    HookRaisedFor(r)
      => /\ ~svc[req[r].service].FLAG_INIT_DONE
         /\ svc[req[r].service].requests = 0
         /\ Finished(r) => HasResponse(r) /\ Sent(r).status = INTERNAL_SERVER_ERROR

\* C25, amended: the flag stays false and the counter is not incremented; the
\* request is answered with status 500 when it names a method, and with
\* tornado's 400 when it has no method argument, which prepare() reads first.
C25_HookRaisedGets500WithMethod ==
  \A r \in Slots :
    HookRaisedFor(r)
      => /\ ~svc[req[r].service].FLAG_INIT_DONE
         /\ svc[req[r].service].requests = 0
         /\ (Finished(r) /\ req[r].methodArg # MissingArg)
              => HasResponse(r) /\ Sent(r).status = INTERNAL_SERVER_ERROR
         /\ (Finished(r) /\ req[r].methodArg = MissingArg)
              => HasResponse(r) /\ Sent(r).status = BAD_REQUEST

\* the hook raised for the third request in a row, which was answered with 500
C25_Witness ==
  \E r \in Slots :
    /\ HookRaisedFor(r) /\ Finished(r)
    /\ svc[req[r].service].hookRuns = 3
    /\ Sent(r).status = INTERNAL_SERVER_ERROR

----
\* The gate and the policy evaluator

\* Request r is past the gate: handed to the executor
PastGate(r) == req[r].pc \in {"DISPATCHING", "RESPONDING"} \/ req[r].dispatched

\* C26: the gate calls authQuery once for a request, with the method name of
\* the request, the credentials extracted for it and auth_<method> (nothing
\* when there is none), and the request is dispatched if and only if authQuery
\* allowed it.
C26_GateAsksOnceAndObeys ==
  \A r \in Slots :
    /\ req[r].gateCalls <= 1
    /\ req[r].gateCalls = 1
         => req[r].gateQuery = [t |-> "query", method |-> req[r].methodArg,
                                credDict |-> Credentials(req[r].chain),
                                hardcodedAuth |-> hardcodedAuth(req[r].methodArg)]
    /\ req[r].pc \notin {"IDLE", "ACCEPTED"}
         => (PastGate(r) <=> (req[r].gateCalls = 1 /\ req[r].authorized))

----
\* The identity of a request

\* Request r has an identity: _gatherPeerCredentials returned for it
HasIdentity(r) == req[r].credCalls > 0 /\ ChainIsValid(req[r].chain)

\* C27: from the return of the credential extraction to the end of the request
\* the credential dictionary of the request is the one extracted: no stage and
\* no built-in method adds, removes or changes a field.
C27_IdentityUnchanged ==
  \A r \in Slots :
    HasIdentity(r) => req[r].credDict = Credentials(req[r].chain)

----
\* extraCredentials

\* Requests with and without a certificate, with every kind of
\* extraCredentials argument
ExtraMethods == {"ping", "whoami"}
ExtraChains == {"absent", "alice"}

ExtraInitialize(r) ==
  InitializeFrom(r, ExtraMethods, {PyFalse}, ExtraChains, {encode(<< >>)}, ExtraArgs)

ExtraNext ==
  \E r \in Slots :
    \/ ExtraInitialize(r)
    \/ Prepare(r)
    \/ ExecuteMethod(r)
    \/ Post(r)
    \/ Release(r)

ExtraSpec == Init /\ [][ExtraNext]_vars

\* The request brought a non-empty extraCredentials argument
BroughtExtra(r) == req[r].extraArg.t \notin {"absent", "text"}

\* C28: in the identity the extraction hands to the gate, every field of the
\* certificate chain has the value the chain produced, the only other key is
\* extraCredentials, present exactly when the request brought a non-empty
\* argument of that name, and it holds the decoded argument.
C28_ExtraOnlyUnderItsKey ==
  \A r \in Slots :
    req[r].gateCalls = 1
      => LET cd == req[r].gateQuery.credDict.d
             chain == Credentials(req[r].chain).d
         IN /\ DOMAIN chain \subseteq DOMAIN cd
            /\ \A k \in DOMAIN chain : cd[k] = chain[k]
            /\ (DOMAIN cd) \ (DOMAIN chain) \subseteq {"extraCredentials"}
            /\ "extraCredentials" \in DOMAIN cd <=> BroughtExtra(r)
            /\ BroughtExtra(r) => cd["extraCredentials"] = decode(req[r].extraArg)

\* alice claimed to be root in extraCredentials and whoami answered
C28_Witness ==
  \E r \in Slots :
    /\ Served(r, "whoami") /\ req[r].chain = "alice"
    /\ req[r].extraArg = encode(ClaimedIdentity)
    /\ HasResponse(r)
    /\ Envelope(Sent(r).body).Value.d.DN = "/O=Grid/CN=alice"
    /\ Envelope(Sent(r).body).Value.d.extraCredentials = ClaimedIdentity

----
\* The value of rawContent

\* The content types of a JSON body: the one __write_return sets and the one
\* tornado sets for a dict
IsJsonType(ctype) == ctype \in {"application/json", "application/json; charset=UTF-8"}

\* C29: a request whose rawContent is absent or false is not answered in the
\* binary mode: what its handler returned is sent as JSON text with a JSON
\* content type.
C29_RawOnlyWhenTrue ==
  \A r \in Slots :
    (Finished(r) /\ req[r].rawArg \in {PyFalse, "false"} /\ ReturnedByHandler(r))
      => /\ ~RawRequested(r)
         /\ HasResponse(r)
         /\ Sent(r).body.t = "json"
         /\ IsJsonType(Sent(r).ctype)

----
\* The client disconnects

\* The client closes the connection of r while its handler is with the
\* executor; the handler overrides no on_connection_close
Disconnect(r) ==
  /\ req[r].pc = "DISPATCHING"
  /\ ~req[r].closed
  /\ ioloop = {}
  /\ req' = [req EXCEPT ![r].closed = TRUE]
  /\ UNCHANGED <<svc, ioloop, accepted, deployed, secLog, ce>>

CancelNext ==
  \E r \in Slots :
    \/ LiveInitialize(r)
    \/ Prepare(r)
    \/ Disconnect(r)
    \/ ExecuteMethod(r)
    \/ Post(r)
    \/ Release(r)

CancelSpec == Init /\ [][CancelNext]_vars /\ Fairness

\* What post() and tornado make of q when the client is still there
WithClient(q) == afterPost(post([q EXCEPT !.closed = FALSE]))

----
\* Requests do not see each other

\* What the handler instance of a request with the inputs of q answers when it
\* is the only request of the server: flag is __FLAG_INIT_DONE as the request
\* finds it after initialize, allow what authQuery returns, hook and outcome
\* what initializeRequest and the exported method do
Alone(q, flag, allow, hook, outcome) ==
  LET q0 == [IdleRequest EXCEPT !.service = q.service, !.methodArg = q.methodArg,
                                !.rawArg = q.rawArg, !.chain = q.chain,
                                !.argsEncoded = q.argsEncoded, !.extraArg = q.extraArg]
      c == [InitClass EXCEPT !.FLAG_INIT_DONE = flag]
      i == initialize(q0, c, flag).q
      p == afterPrepare(prepare(i, c, allow))
  IN IF p.pc = "FINISHED" THEN p
     ELSE afterPost(post(executeMethod(p, hook, outcome)))

\* The per-request state and the response of q
Answer(q) ==
  [method |-> q.method, rawContent |-> q.rawContent, credDict |-> q.credDict,
   httpError |-> q.httpError, status |-> q.status, sent |-> q.sent]

\* C31: a step taken for one request changes the state of no other request,
\* and the method, credentials, status code, rawContent flag and response of a
\* finished request are those the request gets when it is alone on the server
\* with the same inputs and the same state of its service.
C31_RequestsAreIsolated ==
  /\ [][\A r \in Slots : req'[r] # req[r]
          => \A o \in Slots \ {r} : req'[o] = req[o]]_vars
  /\ [](\A r \in Slots :
          Finished(r) =>
            \E allow \in BOOLEAN, hook \in HookOutcomes, outcome \in Outcomes :
              Answer(req[r]) =
                Answer(Alone(req[r], req[r].initOK, allow, hook, outcome)))

\* a request was answered through the executor while another request, with
\* another method, other credentials and another rawContent, is in progress
C31_Witness ==
  \E r, o \in Slots :
    /\ Finished(r) /\ HasResponse(r) /\ req[r].dispatched
    /\ req[o].pc \in {"DISPATCHING", "RESPONDING"}
    /\ req[o].method # req[r].method
    /\ req[o].credDict # req[r].credDict
    /\ req[o].rawContent # req[r].rawContent

----
\* The status code of a request

IsErrorCode(code) == code >= 400

\* The handler instance of r lives on from this state to the next
SameRequest(r) == req[r].pc # "IDLE" /\ req'[r].pc # "IDLE"

\* C32: the status code of a request (self._httpError) is 200 or an error
\* code; a step of the request leaves it as it is or sets an error code, so a
\* request that holds an error code never holds 200 again.  The same goes for
\* the status of the response tornado keeps.
C32_StatusOnlyToError ==
  /\ [](\A r \in Slots :
          /\ req[r].httpError = HTTP_OK \/ IsErrorCode(req[r].httpError)
          /\ req[r].status = HTTP_OK \/ IsErrorCode(req[r].status))
  /\ [][\A r \in Slots :
          SameRequest(r) =>
            /\ req'[r].httpError = req[r].httpError \/ IsErrorCode(req'[r].httpError)
            /\ req'[r].status = req[r].status \/ IsErrorCode(req'[r].status)]_vars

\* a request whose service could not be initialized (500) was then refused by
\* the gate (401): an error code replaced by another error code
C32_Witness ==
  \E r \in Slots :
    /\ Finished(r) /\ ~req[r].initOK
    /\ req[r].httpError = DEFAULT_ERROR_CODE
    /\ req[r].gateCalls = 1

----
\* Two services in one process

TwoMethods == {"ping", "restricted"}
TwoChains == {"absent", "alice"}

\* The process serves both services
TwoInit ==
  /\ svc = [s \in Services |-> InitClass]
  /\ req = [r \in Slots |-> IdleRequest]
  /\ ioloop = {}
  /\ accepted = 0
  /\ deployed = Services
  /\ secLog = InitLog
  /\ ce = IdleCE

TwoInitialize(r) ==
  InitializeFrom(r, TwoMethods, {PyFalse}, TwoChains, {encode(<< >>)}, {NoExtra})

TwoNext ==
  \E r \in Slots :
    \/ TwoInitialize(r)
    \/ Prepare(r)
    \/ ExecuteMethod(r)
    \/ Post(r)
    \/ Release(r)

TwoSpec == TwoInit /\ [][TwoNext]_vars

\* initialize() runs in this step for a request to service s
InitializedNow(s) ==
  \E r \in Slots :
    req[r].pc = "IDLE" /\ req'[r].pc = "ACCEPTED" /\ req'[r].service = s

\* C33: the initialization flag, the request counter and the run count of the
\* setup hook of a service change only in a step that initializes a request to
\* that service, whether this succeeds or not; and a request is refused for a
\* failed initialization only when the hook of its own service raised and the
\* flag of its own service is false.
C33_InitializationPerService ==
  /\ [][\A s \in Services : svc'[s] # svc[s] => InitializedNow(s)]_vars
  /\ [](\A r \in Slots :
          req[r].pc # "IDLE" =>
            IF req[r].initOK
              THEN svc[req[r].service].FLAG_INIT_DONE
              ELSE /\ svc[req[r].service].hookRaised
                   /\ ~svc[req[r].service].FLAG_INIT_DONE)

\* the initialization of A has failed and B, initialized once, has served a
\* request
C33_Witness ==
  /\ svc["A"].hookRaised /\ ~svc["A"].FLAG_INIT_DONE
  /\ svc["B"].FLAG_INIT_DONE /\ svc["B"].hookRuns = 1 /\ ~svc["B"].hookRaised
  /\ \E r \in Slots :
       /\ Finished(r) /\ req[r].service = "B" /\ req[r].invoked
       /\ HasResponse(r) /\ Sent(r).status = HTTP_OK

----
\* One response per request

\* C34: for every request __write_return is called at most once and finish()
\* at most once: once prepare has written an error and finished the request,
\* no later step of the request writes or finishes again.
C34_WritesAndFinishesOnce ==
  \A r \in Slots : req[r].writeCalls <= 1 /\ req[r].finishCalls <= 1

----
\* initializeRequest raises

\* initializeRequest raised for request r
RequestHookRaised(r) == req[r].requestHook = "raised"

\* C35: when initializeRequest raises, the exported method is not called, no
\* exception reaches tornado, and the request is answered with status 500 and
\* an envelope with OK false whose Message is the repr() of the exception, as
\* for an exception of the exported method.
C35_RequestHookRaisedGets500 ==
  \A r \in Slots :
    (Finished(r) /\ RequestHookRaised(r))
      => /\ ~req[r].invoked
         /\ req[r].uncaught = NoExc
         /\ HasResponse(r)
         /\ Sent(r).status = INTERNAL_SERVER_ERROR
         /\ IsEnvelope(Sent(r).body)
         /\ Envelope(Sent(r).body).OK = FALSE
         /\ Envelope(Sent(r).body).Message = Repr(req[r].raisedType, req[r].raised)

\* initializeRequest raised for an allowed call of an exported method, and the
\* request was answered
C35_Witness ==
  \E r \in Slots :
    /\ Finished(r) /\ RequestHookRaised(r)
    /\ req[r].authorized /\ req[r].method \in ExportedMethods
    /\ Sent(r).status = INTERNAL_SERVER_ERROR

----
\* The request counter after the initialization

\* The requests accepted for service A since its initialization succeeded, the
\* request that initialized it included: all the requests accepted but those
\* whose run of the setup hook raised (every run but the last, successful one)
AcceptedSinceInit == accepted - (svc["A"].hookRuns - 1)

\* C36: once a service is initialized its request counter never decreases, so
\* it is never reset, and it is the number of requests accepted for the service
\* since the initialization, whatever became of them afterwards.
C36_CounterIsAcceptedSinceInit ==
  /\ [](svc["A"].FLAG_INIT_DONE => svc["A"].requests = AcceptedSinceInit)
  /\ [][\A s \in Services :
          svc[s].FLAG_INIT_DONE => svc'[s].requests >= svc[s].requests]_vars

\* after a failed and a successful initialization two requests are counted,
\* one of which the gate has denied
C36_Witness ==
  /\ svc["A"].FLAG_INIT_DONE /\ svc["A"].hookRuns = 2
  /\ svc["A"].requests = 2
  /\ \E r \in Slots : Finished(r) /\ Denied(r)

----
\* The security log

\* Some thread calls logAction
LogAction ==
  /\ secLog.calls < MaxMessages
  /\ \E ts \in Timestamps, n \in MsgLens :
       secLog' = logAction(secLog, Message(secLog.calls + 1, ts, n))
  /\ UNCHANGED <<svc, req, ioloop, accepted, deployed, ce>>

\* The writer thread gets a message from the queue; get() blocks while the
\* queue is empty
RunGet ==
  /\ secLog.thread = "get"
  /\ secLog.queue # << >>
  /\ secLog' = runGet(secLog)
  /\ UNCHANGED <<svc, req, ioloop, accepted, deployed, ce>>

\* The writer thread writes the message it got
RunWrite ==
  /\ secLog.thread = "write"
  /\ secLog' = runWrite(secLog)
  /\ UNCHANGED <<svc, req, ioloop, accepted, deployed, ce>>

LogNext == LogAction \/ RunGet \/ RunWrite

\* The writer thread is started by __init__ and is scheduled while it can run
LogFairness == WF_vars(RunGet) /\ WF_vars(RunWrite)

LogSpec == Init /\ [][LogNext]_vars /\ LogFairness

\* s is the beginning of t
IsPrefix(s, t) == Len(s) <= Len(t) /\ s = SubSeq(t, 1, Len(s))

\* C37: logAction accepts a message exactly when it has as many items as there
\* are required fields, and a refused message leaves the queue as it is; the
\* writer thread takes the accepted messages in the order of their acceptance,
\* each once, and every accepted message is taken in the end.
C37_AcceptedIsTakenOnceInOrder ==
  /\ [][secLog'.calls # secLog.calls =>
          IF Len(secLog'.msg) = Len(requiredFields)
            THEN secLog'.ret.d.OK /\ secLog'.queue = Append(secLog.queue, secLog'.msg)
            ELSE ~secLog'.ret.d.OK /\ secLog'.queue = secLog.queue]_vars
  /\ [](IsPrefix(secLog.taken, secLog.accepted))
  /\ \A k \in 1..MaxMessages :
       (Len(secLog.accepted) >= k) ~> (Len(secLog.taken) >= k)

----
\* The jobs a ComputingElement may still take

\* A ComputingElement with any job counts and any limits
CEInit ==
  /\ svc = [s \in Services |-> InitClass]
  /\ req = [r \in Slots |-> IdleRequest]
  /\ ioloop = {}
  /\ accepted = 0
  /\ deployed = {"A"}
  /\ secLog = InitLog
  /\ \E ok \in BOOLEAN, running \in 0..MaxJobs, waiting \in 0..MaxJobs,
        total \in Limits, wait \in Limits, ratio \in Ratios :
       ce = [IdleCE EXCEPT !.infoOK = ok,
                           !.RunningJobs = running, !.WaitingJobs = waiting,
                           !.MaxTotalJobs = total, !.MaxWaitingJobs = wait,
                           !.WaitingToRunningRatio = ratio]

\* available() is called
Available ==
  /\ ~ce.called
  /\ ce' = available(ce)
  /\ UNCHANGED <<svc, req, ioloop, accepted, deployed, secLog>>

CESpec == CEInit /\ [][Available]_vars

Max(a, b) == IF a >= b THEN a ELSE b

\* C38: the number available() returns is never negative; it is 0 when the
\* running and waiting jobs reach MaxTotalJobs; else it keeps the total within
\* MaxTotalJobs and, when it is positive, the waiting jobs within the greater
\* of MaxWaitingJobs and floor(running * WaitingToRunningRatio).
C38_AvailableWithinLimits ==
  (ce.called /\ ce.OK) =>
    LET totalJobs == ce.RunningJobs + ce.WaitingJobs
    IN /\ ce.Value >= 0
       /\ totalJobs >= ce.MaxTotalJobs => ce.Value = 0
       /\ totalJobs < ce.MaxTotalJobs =>
            /\ totalJobs + ce.Value <= ce.MaxTotalJobs
            /\ ce.Value > 0 =>
                 ce.WaitingJobs + ce.Value
                   <= Max(ce.MaxWaitingJobs, floor(runningTimesRatio(ce)))

\* jobs are running and waiting, the ratio gives a bound that is no integer
\* and is what limits the number returned
C38_Witness ==
  /\ ce.called /\ ce.OK /\ ce.Value > 0
  /\ ce.RunningJobs > 0 /\ ce.WaitingJobs > 0
  /\ runningTimesRatio(ce).num % runningTimesRatio(ce).den # 0
  /\ floor(runningTimesRatio(ce)) > ce.MaxWaitingJobs
  /\ ce.WaitingJobs + ce.Value = floor(runningTimesRatio(ce))
  /\ ce.RunningJobs + ce.WaitingJobs + ce.Value < ce.MaxTotalJobs

====
